---------------------------- MODULE Spec2Model ----------------------------
(***************************************************************************)
(* Arbitrage-cycle engine of src/Strategies/amm-arbitrageur/data/          *)
(* graphfinder.py: pool graph, bounded DFS cycle search with rotation      *)
(* signatures, sequential swap simulation, golden-section size search and  *)
(* the threshold filter of find_and_optimize_cycles.                       *)
(*                                                                         *)
(* Numbers.  A Decimal is a rational <<n, d>> in lowest terms with d > 0:  *)
(* the 60-digit context of line 29 is taken as exact on the small inputs   *)
(* of this model.  A Python float is a binary floating-point number with   *)
(* FloatBits significant bits, rounded half-even (ToFloat), so float() is  *)
(* lossy here as it is in the code.                                        *)
(*                                                                         *)
(* The optimizer is modelled a second time on the example triangle of      *)
(* __main__ with the numbers of the code itself: Decimals of DecimalPrec   *)
(* significant digits rounded half-even after every operation, doubles of  *)
(* DoubleBits bits, and the defaults of maximize_profit_for_cycle (the     *)
(* definitions ending in Prec, and SpecGolden).                            *)
(***************************************************************************)
EXTENDS Integers, Sequences, FiniteSets, TLC

-----------------------------------------------------------------------------
(* Rational arithmetic                                                     *)

Abs(i) == IF i < 0 THEN -i ELSE i

RECURSIVE GCD(_, _)
GCD(a, b) == IF b = 0 THEN a ELSE GCD(b, a % b)

\* n/d in lowest terms with a positive denominator (d # 0).
Rat(n, d) ==
    LET g == GCD(Abs(n), Abs(d))
        s == IF d < 0 THEN -1 ELSE 1
    IN  << (s * n) \div g, (s * d) \div g >>

Dec(i) == << i, 1 >>
Zero == Dec(0)
One == Dec(1)

RNeg(a) == << -a[1], a[2] >>

RMul(a, b) ==
    LET g1 == GCD(Abs(a[1]), b[2])
        g2 == GCD(Abs(b[1]), a[2])
    IN  << (a[1] \div g1) * (b[1] \div g2), (a[2] \div g2) * (b[2] \div g1) >>

RAdd(a, b) ==
    LET g == GCD(a[2], b[2])
        l == (a[2] \div g) * b[2]
    IN  Rat(a[1] * (l \div a[2]) + b[1] * (l \div b[2]), l)

RSub(a, b) == RAdd(a, RNeg(b))

\* a / b for b # 0.  Decimal raises on a zero divisor.
RDiv(a, b) ==
    IF b[1] < 0 THEN RMul(RNeg(a), << b[2], -b[1] >>)
    ELSE RMul(a, << b[2], b[1] >>)

\* The order of two non-negative fractions by their continued fractions:
\* -1, 0 or 1, with no product formed.
RECURSIVE CmpPos(_, _, _, _)
CmpPos(n1, d1, n2, d2) ==
    LET q1 == n1 \div d1
        q2 == n2 \div d2
        r1 == n1 % d1
        r2 == n2 % d2
    IN  IF q1 < q2 THEN -1
        ELSE IF q1 > q2 THEN 1
        ELSE IF r1 = 0 /\ r2 = 0 THEN 0
        ELSE IF r1 = 0 THEN -1
        ELSE IF r2 = 0 THEN 1
        ELSE CmpPos(d2, r2, d1, r1)

RCmp(a, b) ==
    IF a[1] < 0 /\ b[1] >= 0 THEN -1
    ELSE IF a[1] >= 0 /\ b[1] < 0 THEN 1
    ELSE IF a[1] >= 0 THEN CmpPos(a[1], a[2], b[1], b[2])
    ELSE CmpPos(-b[1], b[2], -a[1], a[2])

RLt(a, b) == RCmp(a, b) < 0
RLe(a, b) == RCmp(a, b) <= 0
RGt(a, b) == RCmp(a, b) > 0
RMax(a, b) == IF RLt(a, b) THEN b ELSE a

-----------------------------------------------------------------------------
(* float(): FloatBits-bit binary floating point, round half to even        *)

FloatBits == 3

RECURSIVE Pow2(_)
Pow2(k) == IF k = 0 THEN 1 ELSE 2 * Pow2(k - 1)

\* Scale the positive fraction n/d by a power of two into
\* [2^(FloatBits-1), 2^FloatBits) and round it to an integer significand.
RECURSIVE RoundPos(_, _)
RoundPos(n, d) ==
    IF CmpPos(n, d, Pow2(FloatBits - 1), 1) < 0
    THEN RMul(RoundPos(2 * n, d), << 1, 2 >>)
    ELSE IF CmpPos(n, d, Pow2(FloatBits), 1) >= 0
    THEN RMul(RoundPos(n, 2 * d), << 2, 1 >>)
    ELSE LET q == n \div d
             r == n % d
             up == (2 * r > d) \/ (2 * r = d /\ q % 2 = 1)
         IN  Dec(IF up THEN q + 1 ELSE q)

ToFloat(a) ==
    IF a[1] = 0 THEN Zero
    ELSE IF a[1] < 0 THEN RNeg(RoundPos(-a[1], a[2]))
    ELSE RoundPos(a[1], a[2])

-----------------------------------------------------------------------------
(* Pools and the token graph                                               *)

FEE_DEFAULT == << 3, 1000 >>

\* The fee of a pool record that has no "fee" key.
NoFee == << 0, 0 >>

\* Python orders token strings lexicographically.
TokenOrder == << "A", "B", "C" >>
Tokens == { TokenOrder[i] : i \in 1..Len(TokenOrder) }
TokRank(t) == CHOOSE i \in 1..Len(TokenOrder) : TokenOrder[i] = t

Pool(id, t0, t1, r0, r1, fee) ==
    [pair_id |-> id, token0 |-> t0, token1 |-> t1,
     reserve0 |-> r0, reserve1 |-> r1, fee |-> fee]

\* graph: the keys in insertion order, and each key's edge list.
EmptyGraph == [keys |-> << >>, adj |-> << >>]

Edges(g, t) ==
    LET at == { i \in 1..Len(g.keys) : g.keys[i] = t }
    IN  IF at = {} THEN << >> ELSE g.adj[CHOOSE i \in at : TRUE]

\* graph.setdefault(t, []).insert(0, e)
InsertEdgeFirst(g, t, e) ==
    IF \E i \in 1..Len(g.keys) : g.keys[i] = t
    THEN [g EXCEPT !.adj =
            [i \in 1..Len(g.keys) |->
                IF g.keys[i] = t THEN << e >> \o g.adj[i] ELSE g.adj[i]]]
    ELSE [keys |-> Append(g.keys, t), adj |-> Append(g.adj, << e >>)]

\* graph.setdefault(t, []).append(e)
AppendEdge(g, t, e) ==
    IF \E i \in 1..Len(g.keys) : g.keys[i] = t
    THEN [g EXCEPT !.adj =
            [i \in 1..Len(g.keys) |->
                IF g.keys[i] = t THEN Append(g.adj[i], e) ELSE g.adj[i]]]
    ELSE [keys |-> Append(g.keys, t), adj |-> Append(g.adj, << e >>)]

AddPool(g, p) ==
    LET t0 == p.token0
        t1 == p.token1
        r0 == Dec(p.reserve0)
        r1 == Dec(p.reserve1)
        fee == IF p.fee = NoFee THEN FEE_DEFAULT ELSE p.fee
        e01 == [to |-> t1, pair_id |-> p.pair_id, reserve_in |-> r0,
                reserve_out |-> r1, fee |-> fee, token_in |-> t0,
                token_out |-> t1]
        e10 == [to |-> t0, pair_id |-> p.pair_id, reserve_in |-> r1,
                reserve_out |-> r0, fee |-> fee, token_in |-> t1,
                token_out |-> t0]
    IN  AppendEdge(AppendEdge(g, t0, e01), t1, e10)

RECURSIVE BuildFrom(_, _, _)
BuildFrom(g, pools, i) ==
    IF i > Len(pools) THEN g ELSE BuildFrom(AddPool(g, pools[i]), pools, i + 1)

build_graph_from_pools(pools) == BuildFrom(EmptyGraph, pools, 1)

AllEdges(g) == UNION { { g.adj[i][j] : j \in 1..Len(g.adj[i]) } : i \in 1..Len(g.keys) }

-----------------------------------------------------------------------------
(* Cycle search                                                            *)

RECURSIVE Flatten(_)
Flatten(ss) == IF ss = << >> THEN << >> ELSE Head(ss) \o Flatten(Tail(ss))

\* dfs without the test of line 105 on visited tokens.
RECURSIVE dfs_revisits(_, _, _, _, _, _, _)
dfs_revisits(g, max_len, start, current, path_edges, visited, depth) ==
    IF depth > max_len THEN << >>
    ELSE LET es == Edges(g, current)
             visit(edge) ==
                 LET nxt == edge.to
                     found == IF nxt = start /\ path_edges # << >>
                              THEN << Append(path_edges, edge) >>
                              ELSE << >>
                 IN  IF nxt = start THEN found
                     ELSE found \o dfs_revisits(g, max_len, start, nxt,
                                                Append(path_edges, edge),
                                                visited \cup {nxt}, depth + 1)
         IN  Flatten([k \in 1..Len(es) |-> visit(es[k])])

RECURSIVE dfs_closes_at_once(_, _, _, _, _, _, _)
dfs_closes_at_once(g, max_len, start, current, path_edges, visited, depth) ==
    IF depth > max_len THEN << >>
    ELSE LET es == Edges(g, current)
             visit(edge) ==
                 LET nxt == edge.to
                     found == IF nxt = start
                              THEN << Append(path_edges, edge) >>
                              ELSE << >>
                 IN  IF nxt \in visited \/ nxt = start THEN found
                     ELSE found \o dfs_closes_at_once(g, max_len, start, nxt,
                                                      Append(path_edges, edge),
                                                      visited \cup {nxt}, depth + 1)
         IN  Flatten([k \in 1..Len(es) |-> visit(es[k])])

\* dfs of find_simple_cycles: the cycles it appends, in order.
RECURSIVE dfs(_, _, _, _, _, _, _)
dfs(g, max_len, start, current, path_edges, visited, depth) ==
    IF depth > max_len THEN << >>
    ELSE LET es == Edges(g, current)
             visit(edge) ==
                 LET nxt == edge.to
                     found == IF nxt = start /\ path_edges # << >>
                              THEN << Append(path_edges, edge) >>
                              ELSE << >>
                 IN  IF nxt \in visited \/ nxt = start THEN found
                     ELSE found \o dfs(g, max_len, start, nxt,
                                       Append(path_edges, edge),
                                       visited \cup {nxt}, depth + 1)
         IN  Flatten([k \in 1..Len(es) |-> visit(es[k])])

AllCycles(g, max_len) ==
    Flatten([k \in 1..Len(g.keys) |->
                dfs(g, max_len, g.keys[k], g.keys[k], << >>, {g.keys[k]}, 1)])

\* Python's tuple order on token tuples.
RECURSIVE TupleLess(_, _)
TupleLess(s, t) ==
    IF s = << >> THEN t # << >>
    ELSE IF t = << >> THEN FALSE
    ELSE IF Head(s) # Head(t) THEN TokRank(Head(s)) < TokRank(Head(t))
    ELSE TupleLess(Tail(s), Tail(t))

CycleToks(cyc) ==
    [i \in 1..Len(cyc) |-> cyc[i].token_in] \o << cyc[Len(cyc)].token_out >>

\* toks[k:k+L] + toks[:k] for k in range(L), L = len(toks) - 1.
Rotations(toks) ==
    LET L == Len(toks) - 1
        hi(k) == IF k + L < L + 1 THEN k + L ELSE L + 1
    IN  { SubSeq(toks, k + 1, hi(k)) \o SubSeq(toks, 1, k) : k \in 0..(L - 1) }

Signature(cyc) ==
    LET reps == Rotations(CycleToks(cyc))
    IN  CHOOSE s \in reps : \A r \in reps : r = s \/ TupleLess(s, r)

RECURSIVE Unique(_, _, _)
Unique(cycles, i, seen_signatures) ==
    IF i > Len(cycles) THEN << >>
    ELSE LET sig == Signature(cycles[i])
         IN  IF sig \notin seen_signatures
             THEN << cycles[i] >> \o Unique(cycles, i + 1, seen_signatures \cup {sig})
             ELSE Unique(cycles, i + 1, seen_signatures)

find_simple_cycles(g, max_len) == Unique(AllCycles(g, max_len), 1, {})

-----------------------------------------------------------------------------
(* Swap simulation                                                         *)

\* get_amount_out with the fee added to the input instead of taken from it.
get_amount_out_fee_added(amount_in, reserve_in, reserve_out, fee) ==
    IF RLe(amount_in, Zero) \/ RLe(reserve_in, Zero) \/ RLe(reserve_out, Zero)
    THEN Zero
    ELSE LET fee_multiplier == RAdd(One, fee)
             amount_in_with_fee == RMul(amount_in, fee_multiplier)
             numerator == RMul(amount_in_with_fee, reserve_out)
             denominator == RAdd(reserve_in, amount_in_with_fee)
         IN  RDiv(numerator, denominator)

get_amount_out(amount_in, reserve_in, reserve_out, fee) ==
    IF RLe(amount_in, Zero) \/ RLe(reserve_in, Zero) \/ RLe(reserve_out, Zero)
    THEN Zero
    ELSE LET fee_multiplier == RSub(One, fee)
             amount_in_with_fee == RMul(amount_in, fee_multiplier)
             numerator == RMul(amount_in_with_fee, reserve_out)
             denominator == RAdd(reserve_in, amount_in_with_fee)
         IN  RDiv(numerator, denominator)

\* local_reserves of simulate_cycle_final_amount: one entry per edge of the
\* cycle, copied from the edge.
LocalReserves(cycle) ==
    [i \in 1..Len(cycle) |->
        << cycle[i].reserve_in, cycle[i].reserve_out, cycle[i].fee >>]

\* The loop of simulate_cycle_final_amount from edge i on.  used[i] records
\* the reserves and amounts edge i was priced with.
RECURSIVE SimLoop(_, _, _, _, _)
SimLoop(cycle, i, amt, local_reserves, used) ==
    IF i > Len(cycle)
    THEN [amt |-> amt, local_reserves |-> local_reserves, used |-> used]
    ELSE LET reserve_in == local_reserves[i][1]
             reserve_out == local_reserves[i][2]
             fee == local_reserves[i][3]
             out == get_amount_out(amt, reserve_in, reserve_out, fee)
             updated == << RAdd(reserve_in, amt), RSub(reserve_out, out), fee >>
         IN  SimLoop(cycle, i + 1, out,
                     [local_reserves EXCEPT ![i] = updated],
                     Append(used, [amount_in |-> amt, reserve_in |-> reserve_in,
                                   reserve_out |-> reserve_out, out |-> out]))

Simulate(cycle, amount_in) ==
    SimLoop(cycle, 1, amount_in, LocalReserves(cycle), << >>)

simulate_cycle_final_amount(cycle, amount_in) == Simulate(cycle, amount_in).amt

\* profit_for_cycle with the subtraction the wrong way round.
profit_for_cycle_sign_flipped(cycle, x) ==
    RSub(x, simulate_cycle_final_amount(cycle, x))

profit_for_cycle(cycle, x) == RSub(simulate_cycle_final_amount(cycle, x), x)

-----------------------------------------------------------------------------
(* Golden-section search                                                   *)
(* The defaults of maximize_profit_for_cycle keep their order in the code  *)
(* (x_min < the floor of x_max, the floor's width below tol) on the        *)
(* model's scale of reserves.                                              *)

X_MIN_DEFAULT == << 1, 3 >>
X_MAX_FLOOR == << 2, 3 >>
X_MAX_FRACTION == << 1, 5 >>
TOL_DEFAULT == << 1, 2 >>
MAX_ITER_DEFAULT == 2

\* Decimal(1 / Decimal((1 + 5 ** 0.5) / 2)): a rational near 0.618.
InvPhi == << 2, 3 >>

\* x_max = None
NoXMax == << 0, 0 >>

\* The while loop: the bracket and the iteration count it ends with.
RECURSIVE GoldenLoop(_, _, _, _, _, _, _, _, _, _)
GoldenLoop(cycle, tol, max_iter, a, b, c, d, fc, fd, iter_count) ==
    IF RGt(RSub(b, a), tol) /\ iter_count < max_iter
    THEN IF RGt(fc, fd)
         THEN LET b2 == d
                  d2 == c
                  c2 == RSub(b2, RMul(RSub(b2, a), InvPhi))
              IN  GoldenLoop(cycle, tol, max_iter, a, b2, c2, d2,
                             profit_for_cycle(cycle, c2), fc, iter_count + 1)
         ELSE LET a2 == c
                  c2 == d
                  d2 == RAdd(a2, RMul(RSub(b, a2), InvPhi))
              IN  GoldenLoop(cycle, tol, max_iter, a2, b, c2, d2,
                             fd, profit_for_cycle(cycle, d2), iter_count + 1)
    ELSE [a |-> a, b |-> b, c |-> c, d |-> d, fc |-> fc, fd |-> fd,
          iter_count |-> iter_count]

\* max(candidates, key=lambda xx: float(profit_for_cycle(cycle, xx))):
\* the first candidate whose float key no other exceeds.
RECURSIVE MaxByFloatKey(_, _, _, _)
MaxByFloatKey(cycle, candidates, i, best) ==
    IF i > Len(candidates) THEN best
    ELSE IF RGt(ToFloat(profit_for_cycle(cycle, candidates[i])),
                ToFloat(profit_for_cycle(cycle, best)))
         THEN MaxByFloatKey(cycle, candidates, i + 1, candidates[i])
         ELSE MaxByFloatKey(cycle, candidates, i + 1, best)

EffectiveXMax(cycle, x_max) ==
    IF x_max = NoXMax
    THEN RMax(X_MAX_FLOOR, RMul(cycle[1].reserve_in, X_MAX_FRACTION))
    ELSE x_max

\* The interior points and their profits, then the loop.
FirstBracket(cycle, tol, max_iter, a, b, c, d) ==
    GoldenLoop(cycle, tol, max_iter, a, b, c, d,
               profit_for_cycle(cycle, c), profit_for_cycle(cycle, d), 0)

Interior(cycle, tol, max_iter, a, b, w) ==
    FirstBracket(cycle, tol, max_iter, a, b, RSub(b, w), RAdd(a, w))

Bracket(cycle, x_min, x_max, tol, max_iter) ==
    Interior(cycle, tol, max_iter, x_min, EffectiveXMax(cycle, x_max),
             RMul(RSub(EffectiveXMax(cycle, x_max), x_min), InvPhi))

\* best_x = max(candidates, ...); best_profit = profit_for_cycle(cycle, best_x)
WithProfit(cycle, best_x) == << best_x, profit_for_cycle(cycle, best_x) >>

BestOf(cycle, candidates) ==
    WithProfit(cycle, MaxByFloatKey(cycle, candidates, 2, candidates[1]))

BestOfBracket(cycle, k) == BestOf(cycle, << k.a, k.b, k.c, k.d >>)

\* The while loop of a call with the default arguments, from the bracket k
\* for one iteration at most.
GoldenIteration(cycle, k) ==
    GoldenLoop(cycle, TOL_DEFAULT,
               IF k.iter_count < MAX_ITER_DEFAULT THEN k.iter_count + 1
               ELSE MAX_ITER_DEFAULT,
               k.a, k.b, k.c, k.d, k.fc, k.fd, k.iter_count)

\* << x_best, profit_best >>
maximize_profit_for_cycle(cycle, x_min, x_max, tol, max_iter) ==
    IF RLe(EffectiveXMax(cycle, x_max), x_min) THEN << Zero, Zero >>
    ELSE BestOfBracket(cycle, Bracket(cycle, x_min, x_max, tol, max_iter))

-----------------------------------------------------------------------------
(* Pipeline                                                                *)

Optimize(cyc) ==
    maximize_profit_for_cycle(cyc, X_MIN_DEFAULT, NoXMax, TOL_DEFAULT,
                              MAX_ITER_DEFAULT)

\* Opportunity with the cycles counted from one.
OpportunityCountedFromOne(cyc, i, best) ==
    [cycle_index |-> i + 1,
     token_path |-> << cyc[1].token_in >> \o [k \in 1..Len(cyc) |-> cyc[k].token_out],
     pair_ids |-> [k \in 1..Len(cyc) |-> cyc[k].pair_id],
     best_x |-> ToFloat(best[1]),
     best_profit |-> ToFloat(best[2])]

Opportunity(cyc, i, best) ==
    [cycle_index |-> i,
     token_path |-> << cyc[1].token_in >> \o [k \in 1..Len(cyc) |-> cyc[k].token_out],
     pair_ids |-> [k \in 1..Len(cyc) |-> cyc[k].pair_id],
     best_x |-> ToFloat(best[1]),
     best_profit |-> ToFloat(best[2])]

\* The body of the loop over enumerate(cycles): what cycle i adds to results.
Keep(cyc, i, best, min_profit_threshold) ==
    IF RGt(ToFloat(best[2]), min_profit_threshold)
    THEN << Opportunity(cyc, i, best) >>
    ELSE << >>

\* The loop over enumerate(cycles), from 0-based index i on.
RECURSIVE Collect(_, _, _)
Collect(cycles, i, min_profit_threshold) ==
    IF i >= Len(cycles) THEN << >>
    ELSE Keep(cycles[i + 1], i, Optimize(cycles[i + 1]), min_profit_threshold)
         \o Collect(cycles, i + 1, min_profit_threshold)

find_and_optimize_cycles(pools, max_cycle_len, min_profit_threshold) ==
    Collect(find_simple_cycles(build_graph_from_pools(pools), max_cycle_len),
            0, min_profit_threshold)

-----------------------------------------------------------------------------
(* Decimal numbers at the context precision                                *)
(* A magnitude is a sequence of limbs in base Base, least significant      *)
(* first, with no zero limb at the top; << >> is 0.  A Decimal is          *)
(* (-1)^neg * coef * 10^exp.  Every operation of the decimal module returns *)
(* the exact result rounded half-even to DecimalPrec significant digits.   *)

Base == 10000
LimbDigits == 4

\* getcontext().prec = 60
DecimalPrec == 60

Min(x, y) == IF x < y THEN x ELSE y
Max(x, y) == IF x < y THEN y ELSE x

NTrim(a) ==
    LET nz == { i \in 1..Len(a) : a[i] # 0 }
    IN  IF nz = {} THEN << >> ELSE SubSeq(a, 1, CHOOSE i \in nz : \A j \in nz : j <= i)

NCmp(a, b) ==
    IF Len(a) < Len(b) THEN -1
    ELSE IF Len(a) > Len(b) THEN 1
    ELSE LET df == { i \in 1..Len(a) : a[i] # b[i] }
         IN  IF df = {} THEN 0
             ELSE LET i == CHOOSE k \in df : \A j \in df : j <= k
                  IN  IF a[i] < b[i] THEN -1 ELSE 1

\* Limbs i and up of the magnitude whose limb j is cols[j] before the
\* carries (or borrows) are taken, with a carry into limb i.
RECURSIVE Carry(_, _, _)
Carry(cols, i, carry) ==
    IF i > Len(cols)
    THEN IF carry <= 0 THEN << >>
         ELSE << carry % Base >> \o Carry(cols, i + 1, carry \div Base)
    ELSE << (cols[i] + carry) % Base >> \o Carry(cols, i + 1, (cols[i] + carry) \div Base)

Normalize(cols) == NTrim(Carry(cols, 1, 0))

NAdd(a, b) ==
    Normalize([i \in 1..Max(Len(a), Len(b)) |->
                 (IF i <= Len(a) THEN a[i] ELSE 0) + (IF i <= Len(b) THEN b[i] ELSE 0)])

\* a - b for a >= b
NSub(a, b) == Normalize([i \in 1..Len(a) |-> a[i] - (IF i <= Len(b) THEN b[i] ELSE 0)])

NMulSmall(a, k) == Normalize([i \in 1..Len(a) |-> a[i] * k])

\* Column k of the product: the sum of a[i] * b[k + 1 - i] for i in lo..hi.
RECURSIVE Conv(_, _, _, _, _)
Conv(a, b, k, lo, hi) ==
    IF lo > hi THEN 0
    ELSE IF lo = hi THEN a[lo] * b[k + 1 - lo]
    ELSE Conv(a, b, k, lo, (lo + hi) \div 2) + Conv(a, b, k, (lo + hi) \div 2 + 1, hi)

NMul(a, b) ==
    IF a = << >> \/ b = << >> THEN << >>
    ELSE Normalize([k \in 1..(Len(a) + Len(b) - 1) |->
                      Conv(a, b, k, Max(1, k + 1 - Len(b)), Min(k, Len(a)))])

\* Long division by a divisor b whose top limb is at least Base / 2.
\* The quotient limb of the remainder r: the trial limb of the top limbs,
\* lowered until it fits.
RECURSIVE QFix(_, _, _)
QFix(r, b, q) == IF q > 0 /\ NCmp(NMulSmall(b, q), r) > 0 THEN QFix(r, b, q - 1) ELSE q

QuotientLimb(r, b) ==
    QFix(r, b, IF Len(r) < Len(b) THEN 0
               ELSE IF Len(r) = Len(b) THEN r[Len(r)] \div b[Len(b)]
               ELSE Min(Base - 1, (r[Len(r)] * Base + r[Len(r) - 1]) \div b[Len(b)]))

\* Limb `top` of the dividend is brought down to the remainder of the
\* limbs above it: one more quotient limb, and the remainder left.
DivLimb(top, b, above) ==
    LET Take(down, q) == [q |-> << q >> \o above.q, r |-> NSub(down, NMulSmall(b, q))]
        Down(down) == Take(down, QuotientLimb(down, b))
    IN  Down(NTrim(<< top >> \o above.r))

\* Limbs i down to 1 of the dividend a; the limbs above are settled first.
RECURSIVE DivLoop(_, _, _, _)
DivLoop(a, b, i, above) ==
    IF i < 1 \/ Len(above.q) < 0 THEN above
    ELSE DivLoop(a, b, i - 1, DivLimb(a[i], b, above))

\* The quotient q of a by b # 0, with the remainder as the fraction r / den.
NDivMod(a, b) ==
    LET Close(res, den) == [q |-> NTrim(res.q), r |-> res.r, den |-> den]
        Scaled(sa, sb) == Close(DivLoop(sa, sb, Len(sa), [q |-> << >>, r |-> << >>]), sb)
        By(f) == Scaled(NMulSmall(a, f), NMulSmall(b, f))
    IN  By(Base \div (b[Len(b)] + 1))

\* The number of decimal digits of a magnitude.
NDigits(a) ==
    IF a = << >> THEN 0
    ELSE LimbDigits * (Len(a) - 1)
         + Cardinality({ j \in 0..(LimbDigits - 1) : 10 ^ j <= a[Len(a)] })

\* a * 10^n
NScale10(a, n) ==
    LET Shift(m) == IF m = << >> THEN m ELSE [i \in 1..(n \div LimbDigits) |-> 0] \o m
    IN  Shift(NMulSmall(a, 10 ^ (n % LimbDigits)))

\* a / 10^drop for drop > 0: the limbs above the cut, and the limbs below
\* it as the remainder.
NCutPow10(a, drop) ==
    LET Cut(m, cut) ==
            [q |-> SubSeq(m, cut + 1, Len(m)), r |-> NTrim(SubSeq(m, 1, cut)),
             den |-> NScale10(<< 1 >>, LimbDigits * cut)]
    IN  IF drop % LimbDigits = 0 THEN Cut(a, drop \div LimbDigits)
        ELSE Cut(NMulSmall(a, 10 ^ (LimbDigits - (drop % LimbDigits))),
                 drop \div LimbDigits + 1)

\* ROUND_HALF_EVEN of q + r / den
NRoundDiv(qr) ==
    LET Up(half) == half > 0 \/ (half = 0 /\ qr.q # << >> /\ qr.q[1] % 2 = 1)
    IN  IF Up(NCmp(NMulSmall(qr.r, 2), qr.den)) THEN NAdd(qr.q, << 1 >>) ELSE qr.q

MkDec(neg, coef, exp) == [neg |-> neg /\ coef # << >>, coef |-> coef, exp |-> exp]

\* Decimal(n).scaleb(e) for an int n
DecOf(n, e) == MkDec(n < 0, Normalize(<< IF n < 0 THEN -n ELSE n >>), e)
DZero == MkDec(FALSE, << >>, 0)
DOne == DecOf(1, 0)

\* The context's rounding of an exact result.
DRound(x) ==
    LET Drop(drop) ==
            IF drop <= 0 THEN x
            ELSE MkDec(x.neg, NRoundDiv(NCutPow10(x.coef, drop)), x.exp + drop)
    IN  Drop(NDigits(x.coef) - DecimalPrec)

DNeg(x) == MkDec(~x.neg, x.coef, x.exp)
DMulExact(x, y) == MkDec(x.neg # y.neg, NMul(x.coef, y.coef), x.exp + y.exp)

\* x * y
DMul(x, y) == DRound(DMulExact(x, y))

DAddExact(x, y) ==
    LET Signed(xc, yc, e) ==
            IF x.neg = y.neg THEN MkDec(x.neg, NAdd(xc, yc), e)
            ELSE IF NCmp(xc, yc) >= 0 THEN MkDec(x.neg, NSub(xc, yc), e)
            ELSE MkDec(y.neg, NSub(yc, xc), e)
        At(e) == Signed(NScale10(x.coef, x.exp - e), NScale10(y.coef, y.exp - e), e)
    IN  IF x.coef = << >> THEN y
        ELSE IF y.coef = << >> THEN x
        ELSE At(Min(x.exp, y.exp))

\* x + y and x - y
DAdd(x, y) == DRound(DAddExact(x, y))
DSub(x, y) == DAdd(x, DNeg(y))

\* Comparisons of Decimals are exact.
DSign(x) == IF x.coef = << >> THEN 0 ELSE IF x.neg THEN -1 ELSE 1
DCmp(x, y) == DSign(DAddExact(x, DNeg(y)))
DMax(x, y) == IF DCmp(x, y) >= 0 THEN x ELSE y

\* x / y for y # 0: a quotient of more than DecimalPrec digits with one
\* more digit that says whether a remainder is left, then the rounding.
DDiv(x, y) ==
    LET Sticky(qr) ==
            IF qr.r = << >> THEN NMulSmall(qr.q, 10)
            ELSE NAdd(NMulSmall(qr.q, 10), << 1 >>)
        At(k) ==
            DRound(MkDec(x.neg # y.neg, Sticky(NDivMod(NScale10(x.coef, k), y.coef)),
                         x.exp - y.exp - k - 1))
    IN  IF x.coef = << >> THEN x
        ELSE At(Max(0, DecimalPrec + 2 + NDigits(y.coef) - NDigits(x.coef)))

\* Decimal(str(r)) of a number r of the rational model
AtPrec(r) == DDiv(DecOf(r[1], 0), DecOf(r[2], 0))

-----------------------------------------------------------------------------
(* float(): the nearest double, ties to even, held as the exact Decimal it *)
(* is (for magnitudes in the normal range of doubles)                      *)

DoubleBits == 53

\* 2^t exactly: 2^(-n) = 5^n / 10^n
RECURSIVE NPower(_, _)
NPower(k, n) ==
    IF n = 0 THEN << 1 >>
    ELSE IF n = 1 THEN << k >>
    ELSE NMul(NPower(k, n \div 2), NPower(k, n - n \div 2))

DPow2(t) == IF t >= 0 THEN MkDec(FALSE, NPower(2, t), 0) ELSE MkDec(FALSE, NPower(5, -t), t)

\* The e with 2^e <= v < 2^(e+1) for v > 0.  A v with 10^(L-1) <= v < 10^L
\* has e between (L-1) * log2(10) and L * log2(10), log2(10) = 3.321928...
BinaryExponent(v) ==
    LET Top(S) == CHOOSE k \in S : \A j \in S : j <= k
        Within(L) ==
            Top({ k \in (((L - 1) * 3321928) \div 1000000 - 1)..((L * 3321928) \div 1000000 + 1) :
                    DCmp(DPow2(k), v) <= 0 })
    IN  Within(NDigits(v.coef) + v.exp)

\* The nearest integer, ties to even
DRoundInt(x) ==
    IF x.exp >= 0 THEN x ELSE MkDec(x.neg, NRoundDiv(NCutPow10(x.coef, -x.exp)), 0)

\* float(x): x rounded to a multiple of 2^(e + 1 - DoubleBits)
ToDouble(x) ==
    LET At(s) == DMulExact(DRoundInt(DMulExact(x, DPow2(s))), DPow2(-s))
    IN  IF x.coef = << >> THEN x
        ELSE At(DoubleBits - 1 - BinaryExponent(MkDec(FALSE, x.coef, x.exp)))

-----------------------------------------------------------------------------
(* The swap simulation and the golden-section search at the context        *)
(* precision, with the defaults of maximize_profit_for_cycle               *)

get_amount_out_prec(amount_in, reserve_in, reserve_out, fee) ==
    LET Out(amount_in_with_fee) ==
            DDiv(DMul(amount_in_with_fee, reserve_out), DAdd(reserve_in, amount_in_with_fee))
    IN  IF DSign(amount_in) <= 0 \/ DSign(reserve_in) <= 0 \/ DSign(reserve_out) <= 0
        THEN DZero
        ELSE Out(DMul(amount_in, DSub(DOne, fee)))

\* The loop of simulate_cycle_final_amount from edge i on: local_reserves[i]
\* is read once, before it is written, so edge i is priced with the
\* reserves of the edge itself.
RECURSIVE SimLoopPrec(_, _, _)
SimLoopPrec(cycle, i, amt) ==
    IF i > Len(cycle) THEN amt
    ELSE SimLoopPrec(cycle, i + 1,
                     get_amount_out_prec(amt, cycle[i].reserve_in, cycle[i].reserve_out,
                                         cycle[i].fee))

simulate_cycle_final_amount_prec(cycle, amount_in) == SimLoopPrec(cycle, 1, amount_in)

profit_for_cycle_prec(cycle, x) == DSub(simulate_cycle_final_amount_prec(cycle, x), x)

\* x_min = Decimal('1e-12'), tol = 1e-6, max_iter = 80
X_MIN_SOURCE == DecOf(1, -12)
TOL_SOURCE == DecOf(1, -6)
MAX_ITER_SOURCE == 80

\* x_max = max(Decimal('1e-6'), first_res_in * Decimal('0.2'))
XMaxSource(cycle) == DMax(DecOf(1, -6), DMul(cycle[1].reserve_in, DecOf(2, -1)))

\* Decimal((1 + 5 ** 0.5) / 2): the double 7286977268806824 * 2^-52
phi == DMulExact(MkDec(FALSE, << 6824, 6880, 9772, 7286 >>, 0), DPow2(-52))
invphi == DDiv(DOne, phi)

\* (b - a) * Decimal(invphi)
Width(a, b) == DMul(DSub(b, a), invphi)

\* One iteration that keeps the side of the lower interior profit.
GoldenStepPrecKeepsWorse(cycle, k) ==
    LET Left(c) ==
            [a |-> k.a, b |-> k.d, c |-> c, d |-> k.c,
             fc |-> profit_for_cycle_prec(cycle, c), fd |-> k.fc,
             iter_count |-> k.iter_count + 1]
        Right(d) ==
            [a |-> k.c, b |-> k.b, c |-> k.d, d |-> d,
             fc |-> k.fd, fd |-> profit_for_cycle_prec(cycle, d),
             iter_count |-> k.iter_count + 1]
    IN  IF DCmp(k.fc, k.fd) < 0
        THEN Left(DSub(k.d, Width(k.a, k.d)))
        ELSE Right(DAdd(k.c, Width(k.c, k.b)))

\* One iteration of the while loop: Left discards d..b, Right discards
\* a..c.
GoldenStepPrec(cycle, k) ==
    LET Left(c) ==
            [a |-> k.a, b |-> k.d, c |-> c, d |-> k.c,
             fc |-> profit_for_cycle_prec(cycle, c), fd |-> k.fc,
             iter_count |-> k.iter_count + 1]
        Right(d) ==
            [a |-> k.c, b |-> k.b, c |-> k.d, d |-> d,
             fc |-> k.fd, fd |-> profit_for_cycle_prec(cycle, d),
             iter_count |-> k.iter_count + 1]
    IN  IF DCmp(k.fc, k.fd) > 0
        THEN Left(DSub(k.d, Width(k.a, k.d)))
        ELSE Right(DAdd(k.c, Width(k.c, k.b)))

\* The state at the first test of the while loop.
StartBracket(cycle, a, b) ==
    LET First(c, d) ==
            [a |-> a, b |-> b, c |-> c, d |-> d,
             fc |-> profit_for_cycle_prec(cycle, c),
             fd |-> profit_for_cycle_prec(cycle, d), iter_count |-> 0]
    IN  First(DSub(b, Width(a, b)), DAdd(a, Width(a, b)))

\* The loop test with iter_count <= max_iter.
LoopingOnceMore(k, tol, max_iter) ==
    DCmp(DSub(k.b, k.a), tol) > 0 /\ k.iter_count <= max_iter

\* (b - a) > Decimal(str(tol)) and iter_count < max_iter
Looping(k, tol, max_iter) == DCmp(DSub(k.b, k.a), tol) > 0 /\ k.iter_count < max_iter

\* max(candidates, key=lambda xx: float(profit_for_cycle(cycle, xx))): the
\* first candidate whose key no other exceeds.
RECURSIVE MaxKeyed(_, _, _)
MaxKeyed(keyed, i, top) ==
    IF i > Len(keyed) THEN top.x
    ELSE MaxKeyed(keyed, i + 1, IF DCmp(keyed[i].key, top.key) > 0 THEN keyed[i] ELSE top)

BestCandidate(cycle, candidates) ==
    LET Keyed(xx) == [x |-> xx, key |-> ToDouble(profit_for_cycle_prec(cycle, xx))]
    IN  MaxKeyed([i \in 1..Len(candidates) |-> Keyed(candidates[i])], 2,
                 Keyed(candidates[1]))

\* candidates = [a, b, c, d]; (best_x, best_profit)
BestOfPrecFinalAmount(cycle, k) ==
    LET With(best_x) ==
            [best_x |-> best_x,
             best_profit |-> simulate_cycle_final_amount_prec(cycle, best_x)]
    IN  With(BestCandidate(cycle, << k.a, k.b, k.c, k.d >>))

BestOfPrec(cycle, k) ==
    LET With(best_x) ==
            [best_x |-> best_x, best_profit |-> profit_for_cycle_prec(cycle, best_x)]
    IN  With(BestCandidate(cycle, << k.a, k.b, k.c, k.d >>))

\* return (Decimal(0), Decimal(0))
NoBest == [best_x |-> DZero, best_profit |-> DZero]

\* The arguments of maximize_profit_for_cycle after the cycle; x_max = None
\* is NoXMaxArg.
NoXMaxArg == [none |-> TRUE]
XMaxOf(cycle, args) == IF args.x_max = NoXMaxArg THEN XMaxSource(cycle) ELSE args.x_max

\* No bracket yet, nothing returned yet.
NotYet == [iter_count |-> 0, returned |-> FALSE]

\* The call that computes the interior points and their profits before it
\* tests x_max <= x_min.
EnterEvaluatesFirst(cycle, args) ==
    IF DCmp(XMaxOf(cycle, args), args.x_min) <= 0
    THEN [pc |-> "done", golden |-> NotYet, best |-> NoBest, evals |-> 2]
    ELSE [pc |-> "loop", golden |-> StartBracket(cycle, args.x_min, XMaxOf(cycle, args)),
          best |-> NotYet, evals |-> 2]

\* The call up to the first test of its while loop, or returned if
\* x_max <= x_min; evals counts the calls of profit_for_cycle.
Enter(cycle, args) ==
    IF DCmp(XMaxOf(cycle, args), args.x_min) <= 0
    THEN [pc |-> "done", golden |-> NotYet, best |-> NoBest, evals |-> 0]
    ELSE [pc |-> "loop", golden |-> StartBracket(cycle, args.x_min, XMaxOf(cycle, args)),
          best |-> NotYet, evals |-> 2]

-----------------------------------------------------------------------------
(* Inputs of the model                                                     *)

MaxPools == 4
MaxCycleLen == 3
MaxReserve == 3
MaxAmount == 6

\* The example triangle of the module's __main__ (P1..P3, reserves scaled),
\* a second A-B pool, pools with a zero or negative reserve, with a fee
\* outside [0,1), and a pool of one token with itself.
PoolMenu ==
    << Pool("P1", "A", "B", 5, 10, Zero),
       Pool("P2", "B", "C", 5, 10, Zero),
       Pool("P3", "C", "A", 10, 5, Zero),
       Pool("P4", "A", "B", 10, 5, << 1, 2 >>),
       Pool("P5", "B", "C", 0, 10, Zero),
       Pool("P6", "C", "A", -5, 10, Zero),
       Pool("P7", "A", "B", 5, 5, << -1, 2 >>),
       Pool("P8", "B", "C", 5, 5, One),
       Pool("P9", "A", "A", 5, 10, Zero) >>

RECURSIVE MenuSeq(_, _)
MenuSeq(menu, S) ==
    IF S = {} THEN << >>
    ELSE LET m == CHOOSE i \in S : \A j \in S : i <= j
         IN  << menu[m] >> \o MenuSeq(menu, S \ {m})

\* Snapshots: up to n pools of the menu, in menu order.
SnapshotsOf(menu, n) ==
    { MenuSeq(menu, S) : S \in { T \in SUBSET (1..Len(menu)) : Cardinality(T) <= n } }

\* and a triangle that pays more the more is put in, up to a fifth of the
\* first reserve.
Snapshots ==
    SnapshotsOf(PoolMenu, MaxPools)
    \cup { << Pool("P1", "A", "B", 55, 110, Zero),
              Pool("P2", "B", "C", 110, 220, Zero),
              Pool("P3", "C", "A", 220, 440, Zero) >> }
CycleLens == 1..MaxCycleLen
Thresholds == { Dec(-1), Zero, << 5, 32 >> }

\* Inputs of the repeated scans.
RepeatSnapshots ==
    { MenuSeq(PoolMenu, S) : S \in { {1, 2, 3}, {1, 4}, {2, 5}, {3, 6, 9}, {7, 8} } }
RepeatThresholds == { Zero, << 5, 32 >> }

\* Inputs of the swap simulation: the round trips through one A-B pool of
\* every reserve pair and fee, and the cycles of the menu's triangles.
SwapFees == { << -1, 2 >>, Zero, << 1, 4 >>, << 1, 2 >>, One }
SwapPools ==
    { Pool("P1", "A", "B", r0, r1, fee) :
        r0 \in (-1)..MaxReserve, r1 \in (-1)..MaxReserve, fee \in SwapFees }
SeqRange(q) == { q[i] : i \in 1..Len(q) }
SwapCycles ==
    UNION { SeqRange(find_simple_cycles(build_graph_from_pools(<< p >>), 2)) :
              p \in SwapPools }
    \cup UNION { SeqRange(find_simple_cycles(build_graph_from_pools(q), 3)) :
                   q \in SnapshotsOf(PoolMenu, 3) }
SwapAmounts == { Rat(k, 2) : k \in (-2)..MaxAmount }

\* The calls on a built graph.
MaxCalls == 4

\* The pools of __main__ and, of the cycles find_simple_cycles returns for
\* them, the one along A -> B -> C -> A, with its numbers as Decimals.
ExamplePools ==
    << Pool("P1", "A", "B", 1000, 2000, FEE_DEFAULT),
       Pool("P2", "B", "C", 1500, 3000, FEE_DEFAULT),
       Pool("P3", "C", "A", 500, 250, FEE_DEFAULT) >>
ExampleCycle ==
    LET AtPrecEdge(e) ==
            [e EXCEPT !.reserve_in = AtPrec(@), !.reserve_out = AtPrec(@),
                      !.fee = AtPrec(@)]
        AtPrecCycle(cyc) == [m \in 1..Len(cyc) |-> AtPrecEdge(cyc[m])]
        Along(found, toks) ==
            found[CHOOSE c \in 1..Len(found) : CycleToks(found[c]) = toks]
    IN  AtPrecCycle(Along(find_simple_cycles(build_graph_from_pools(ExamplePools), 3),
                          << "A", "B", "C", "A" >>))

\* The brute-force grid search.  Level 1 is GridPoints + 1 trade sizes,
\* evenly spaced from x_min to x_max.  Each further level looks at the two
\* cells around the best size of the level before, with a step GridZoom
\* times smaller: after GridLevels levels the sizes looked at are points of
\* the even grid of GridPoints * GridZoom^(GridLevels - 1) cells.
GridPoints == 100
GridZoom == 10
GridLevels == 4
GridCount(level) == IF level = 1 THEN GridPoints ELSE 2 * GridZoom
Clamped(x, lo, hi) == IF DCmp(x, lo) < 0 THEN lo ELSE IF DCmp(x, hi) > 0 THEN hi ELSE x
GridX(lo, step, i) ==
    Clamped(DAdd(lo, DMul(step, DecOf(i, 0))), X_MIN_SOURCE, XMaxSource(ExampleCycle))

\* Arguments of maximize_profit_for_cycle on the example cycle: x_max at,
\* below and above x_min, tol below, at and above zero, max_iter from 0.
MaxIterArg == 3
ArgMenu ==
    { [x_min |-> x_min, x_max |-> x_max, tol |-> tol, max_iter |-> max_iter] :
        x_min \in { X_MIN_SOURCE, DecOf(250, 0) },
        x_max \in { NoXMaxArg, DecOf(1, -12), DecOf(250, 0) },
        tol \in { DecOf(-1, 0), DZero, TOL_SOURCE, DecOf(100, 0) },
        max_iter \in { 0, 1, MaxIterArg } }

-----------------------------------------------------------------------------
(* State and steps                                                         *)

VARIABLES
    pools,                  \* the snapshot of the last scan
    max_cycle_len,          \* its max_cycle_len
    min_profit_threshold,   \* its min_profit_threshold
    graph,                  \* the graph the last scan built
    cycles,                 \* the cycles it enumerated
    results,                \* the list it returned
    calls,                  \* calls so far
    history,                \* observer: each scan's arguments and result
    sim_cycle,              \* the cycle of the last profit_for_cycle call
    sim_x,                  \* its x
    sim,                    \* what the call computed
    opt,                    \* the last maximize_profit_for_cycle call
    swap,                   \* the last get_amount_out call
    work,                   \* the optimizations of a scan's cycles under way
    golden_args,            \* maximize_profit_for_cycle: its arguments
    golden_evals,           \* the calls of profit_for_cycle it made
    golden_pc,              \* where it is: "start", "loop" or "done"
    golden,                 \* its a, b, c, d, fc, fd and iter_count
    golden_best,            \* what it returned
    grid_level,             \* grid search: its level, 1..GridLevels
    grid_lo,                \* the first trade size of the level
    grid_step,              \* the step of the level
    grid_i,                 \* the point of the level looked at, -1 for none
    grid_x,                 \* its trade size
    grid_profit,            \* profit_for_cycle at that size
    grid_top,                \* the best size so far, and its profit
    search                  \* the call of find_simple_cycles under way, step by step

scan_vars == << pools, max_cycle_len, min_profit_threshold, graph, cycles,
                results, history >>
sim_vars == << sim_cycle, sim_x, sim, opt, swap, work, search >>
grid_vars == << grid_level, grid_lo, grid_step, grid_i, grid_x, grid_profit, grid_top >>
golden_vars == << golden_args, golden_evals, golden_pc, golden, golden_best, grid_vars >>
vars == << scan_vars, sim_vars, calls, golden_vars >>

NoSim == [ran |-> FALSE]
NoOpt == [ran |-> FALSE]
NoSearch == [pc |-> "idle"]

\* maximize_profit_for_cycle(ExampleCycle) up to the first test of its
\* while loop, or returned if x_max <= x_min.
GoldenInit ==
    /\ golden_args = [x_min |-> X_MIN_SOURCE, x_max |-> NoXMaxArg,
                      tol |-> TOL_SOURCE, max_iter |-> MAX_ITER_SOURCE]
    /\ golden_evals = 2
    /\ golden_pc = IF DCmp(XMaxSource(ExampleCycle), X_MIN_SOURCE) <= 0 THEN "done" ELSE "loop"
    /\ golden = StartBracket(ExampleCycle, X_MIN_SOURCE, XMaxSource(ExampleCycle))
    /\ golden_best = NoBest
    /\ grid_level = 1
    /\ grid_lo = X_MIN_SOURCE
    /\ grid_step = DDiv(DSub(XMaxSource(ExampleCycle), X_MIN_SOURCE), DecOf(GridPoints, 0))
    /\ grid_i = -1
    /\ grid_x = DZero
    /\ grid_profit = DZero
    /\ grid_top = [x |-> DZero, profit |-> DZero]

Init ==
    /\ GoldenInit
    /\ pools = << >>
    /\ max_cycle_len = 0
    /\ min_profit_threshold = Zero
    /\ graph = EmptyGraph
    /\ cycles = << >>
    /\ results = << >>
    /\ calls = 0
    /\ history = << >>
    /\ sim_cycle = << >>
    /\ sim_x = Zero
    /\ sim = NoSim
    /\ opt = NoOpt
    /\ swap = NoSim
    /\ work = [jobs |-> << >>, overlapped |-> FALSE]
    /\ search = NoSearch

\* A scan whose graph dict outlives the call: the pools are added to the
\* graph the previous scan left.
ScanSharedGraph(p, len, thr) ==
    /\ pools' = p
    /\ max_cycle_len' = len
    /\ min_profit_threshold' = thr
    /\ graph' = BuildFrom(graph, p, 1)
    /\ cycles' = find_simple_cycles(graph', len)
    /\ results' = Collect(cycles', 0, thr)
    /\ calls' = calls + 1
    /\ history' = Append(history, [args |-> << p, len, thr >>, results |-> results'])
    /\ UNCHANGED << sim_vars, golden_vars >>

\* One call of find_and_optimize_cycles(p, len, thr).
Scan(p, len, thr) ==
    /\ pools' = p
    /\ max_cycle_len' = len
    /\ min_profit_threshold' = thr
    /\ graph' = build_graph_from_pools(p)
    /\ cycles' = find_simple_cycles(graph', len)
    /\ results' = Collect(cycles', 0, thr)
    /\ calls' = calls + 1
    /\ history' = Append(history, [args |-> << p, len, thr >>, results |-> results'])
    /\ UNCHANGED << sim_vars, golden_vars >>

\* The edge e after a call that assigned the reserves of local_reserves
\* to the edges of cyc.
WrittenBack(e, cyc, local_reserves) ==
    IF \E m \in 1..Len(cyc) : cyc[m] = e
    THEN LET m == CHOOSE n \in 1..Len(cyc) : cyc[n] = e
         IN  [e EXCEPT !.reserve_in = local_reserves[m][1],
                       !.reserve_out = local_reserves[m][2]]
    ELSE e

\* profit_for_cycle(cyc, x) if simulate_cycle_final_amount kept the
\* reserves it updates in the edges themselves.
ProfitWritesEdges(cyc, x) ==
    /\ sim_cycle' = cyc
    /\ sim_x' = x
    /\ sim' = LET s == Simulate(cyc, x)
              IN  [ran |-> TRUE, final |-> s.amt, used |-> s.used,
                   local_reserves |-> s.local_reserves,
                   profit |-> profit_for_cycle(cyc, x)]
    /\ calls' = calls + 1
    /\ graph' = [graph EXCEPT !.adj =
                    [i \in 1..Len(graph.adj) |->
                        [j \in 1..Len(graph.adj[i]) |->
                            WrittenBack(graph.adj[i][j], cyc, sim'.local_reserves)]]]
    /\ cycles' = [c \in 1..Len(cycles) |->
                    [m \in 1..Len(cycles[c]) |->
                        WrittenBack(cycles[c][m], cyc, sim'.local_reserves)]]
    /\ UNCHANGED << pools, max_cycle_len, min_profit_threshold, results, history,
                    opt, swap, search, work, golden_vars >>

\* One call of profit_for_cycle(cyc, x): simulate_cycle_final_amount
\* copies the reserves of the edges into local_reserves and assigns to
\* that list only.
Profit(cyc, x) ==
    /\ sim_cycle' = cyc
    /\ sim_x' = x
    /\ sim' = LET s == Simulate(cyc, x)
              IN  [ran |-> TRUE, final |-> s.amt, used |-> s.used,
                   local_reserves |-> s.local_reserves,
                   profit |-> profit_for_cycle(cyc, x)]
    /\ calls' = calls + 1
    /\ UNCHANGED << scan_vars, opt, swap, search, work, golden_vars >>

ScanStep ==
    \E p \in Snapshots, len \in CycleLens, thr \in Thresholds :
        calls = 0 /\ Scan(p, len, thr)

ProfitStep ==
    \E cyc \in SwapCycles, x \in SwapAmounts :
        calls = 0 /\ Profit(cyc, x)

Next == ProfitStep \/ ScanStep

\* One call on a fresh module.
Spec == Init /\ [][Next]_vars

\* Scans one after another: any scan, any second scan, then the first
\* scan's arguments again.
RepeatStep ==
    \E p \in RepeatSnapshots, len \in {2, 3}, thr \in RepeatThresholds :
        /\ calls < 3
        /\ calls = 2 => << p, len, thr >> = history[1].args
        /\ Scan(p, len, thr)

SpecRepeat == Init /\ [][RepeatStep]_vars

\* build_graph_from_pools(p), on a fresh module.
BuildCall(p) ==
    /\ calls = 0
    /\ pools' = p
    /\ graph' = build_graph_from_pools(p)
    /\ calls' = calls + 1
    /\ UNCHANGED << max_cycle_len, min_profit_threshold, cycles, results, history,
                    sim_vars, golden_vars >>

\* find_simple_cycles(graph, len) on the graph built.
FindCall(len) ==
    /\ calls >= 1
    /\ max_cycle_len' = len
    /\ cycles' = find_simple_cycles(graph, len)
    /\ calls' = calls + 1
    /\ UNCHANGED << pools, min_profit_threshold, graph, results, history,
                    sim_vars, golden_vars >>

\* maximize_profit_for_cycle(cyc) with its default arguments.
Maximize(cyc) ==
    /\ opt' = [ran |-> TRUE, cycle |-> cyc, best |-> Optimize(cyc)]
    /\ calls' = calls + 1
    /\ UNCHANGED << scan_vars, sim_cycle, sim_x, sim, swap, search, work, golden_vars >>

CallsNext ==
    \/ \E S \in { {1, 2, 3}, {1, 4}, {3, 6, 9} } : BuildCall(MenuSeq(PoolMenu, S))
    \/ \E len \in {2, 3} : calls < MaxCalls /\ FindCall(len)
    \/ \E c \in 1..Len(cycles), x \in { Dec(1), << 5, 2 >> } :
            calls < MaxCalls /\ Profit(cycles[c], x)
    \/ \E c \in 1..Len(cycles) : calls < MaxCalls /\ Maximize(cycles[c])

\* One call of build_graph_from_pools, on a snapshot or on the same with
\* pools that give no fee.
BuildNext ==
    \E q \in Snapshots, feeless \in BOOLEAN :
        BuildCall([k \in 1..Len(q) |->
                     IF feeless /\ k % 2 = 1 THEN [q[k] EXCEPT !.fee = NoFee] ELSE q[k]])

SpecBuild == Init /\ [][BuildNext]_vars

\* A graph is built, then the functions that read it are called in any
\* order, MaxCalls calls in all.
SpecCalls == Init /\ [][CallsNext]_vars

\* The grid search has looked at no point yet; it has looked at them all.
GridEmpty == grid_level = 1 /\ grid_i < 0
GridDone == grid_level = GridLevels /\ grid_i = GridCount(grid_level)

\* One iteration of the while loop of maximize_profit_for_cycle.
LoopStep ==
    /\ golden_pc = "loop"
    /\ Looping(golden, golden_args.tol, golden_args.max_iter)
    /\ golden' = GoldenStepPrec(ExampleCycle, golden)
    /\ golden_evals' = golden_evals + 1
    /\ UNCHANGED << golden_args, golden_pc, golden_best, grid_vars, scan_vars,
                    sim_vars, calls >>

\* The loop ends: the best of a, b, c, d is returned.
LoopExit ==
    /\ golden_pc = "loop"
    /\ ~Looping(golden, golden_args.tol, golden_args.max_iter)
    /\ golden_best' = BestOfPrec(ExampleCycle, golden)
    /\ golden_evals' = golden_evals + 5
    /\ golden_pc' = "done"
    /\ UNCHANGED << golden_args, golden, grid_vars, scan_vars, sim_vars, calls >>

\* The grid search looks at the next point of its level.
GridStep ==
    /\ golden_pc = "done"
    /\ grid_i < GridCount(grid_level)
    /\ grid_i' = grid_i + 1
    /\ grid_x' = GridX(grid_lo, grid_step, grid_i')
    /\ grid_profit' = profit_for_cycle_prec(ExampleCycle, grid_x')
    /\ grid_top' = IF GridEmpty \/ DCmp(grid_profit', grid_top.profit) > 0
                   THEN [x |-> grid_x', profit |-> grid_profit']
                   ELSE grid_top
    /\ UNCHANGED << golden_args, golden_evals, golden_pc, golden, golden_best >>
    /\ UNCHANGED << grid_level, grid_lo, grid_step >>
    /\ UNCHANGED << scan_vars, sim_vars, calls >>

\* The level is through: the next one is the two cells around the best size.
GridZoomIn ==
    /\ golden_pc = "done"
    /\ grid_i = GridCount(grid_level)
    /\ grid_level < GridLevels
    /\ grid_level' = grid_level + 1
    /\ grid_lo' = DSub(grid_top.x, grid_step)
    /\ grid_step' = DDiv(grid_step, DecOf(GridZoom, 0))
    /\ grid_i' = -1
    /\ UNCHANGED << golden_args, golden_evals, golden_pc, golden, golden_best >>
    /\ UNCHANGED << grid_x, grid_profit, grid_top >>
    /\ UNCHANGED << scan_vars, sim_vars, calls >>

\* A call of maximize_profit_for_cycle on the example cycle, not yet begun.
NotBegun ==
    /\ golden_evals = 0
    /\ golden_pc = "start"
    /\ golden = NotYet
    /\ golden_best = NotYet
    /\ grid_level = 1
    /\ grid_lo = X_MIN_SOURCE
    /\ grid_step = DZero
    /\ grid_i = -1
    /\ grid_x = DZero
    /\ grid_profit = DZero
    /\ grid_top = [x |-> DZero, profit |-> DZero]
    /\ pools = << >>
    /\ max_cycle_len = 0
    /\ min_profit_threshold = Zero
    /\ graph = EmptyGraph
    /\ cycles = << >>
    /\ results = << >>
    /\ calls = 0
    /\ history = << >>
    /\ sim_cycle = << >>
    /\ sim_x = Zero
    /\ sim = NoSim
    /\ opt = NoOpt
    /\ swap = NoSim
    /\ work = [jobs |-> << >>, overlapped |-> FALSE]
    /\ search = NoSearch

\* The call with any arguments of the menu.
InitArgs == golden_args \in ArgMenu /\ NotBegun

\* The call begins: lines 178-197.
EnterStep ==
    /\ golden_pc = "start"
    /\ \E entered \in { Enter(ExampleCycle, golden_args) } :
            /\ golden_pc' = entered.pc
            /\ golden' = entered.golden
            /\ golden_best' = entered.best
            /\ golden_evals' = entered.evals
    /\ UNCHANGED << golden_args, grid_vars, scan_vars, sim_vars, calls >>

ArgsNext == EnterStep \/ LoopStep \/ LoopExit

\* maximize_profit_for_cycle on the example cycle, with arguments.
SpecArgs == InitArgs /\ [][ArgsNext]_vars

\* What every step of the call does to its position and to its count of
\* profit evaluations: a call that has not returned goes on.
Advance ==
    /\ golden_pc # "done"
    /\ golden_pc' \in { "loop", "done" }
    /\ golden_evals' \in { 0, 2, golden_evals + 1, golden_evals + 5 }

\* The same, with the call running on until it returns.
SpecArgsFair == SpecArgs /\ WF_<< golden_pc, golden_evals >>(Advance)

\* find_simple_cycles one step at a time.  search.stack is the stack of the
\* calls of dfs under way, the innermost last; edge is the place of a call in
\* its loop over the edges of current; node counts the start tokens begun.
MinLenArg == -1

Frame(start, current, path_edges, visited, depth) ==
    [start |-> start, current |-> current, path_edges |-> path_edges,
     visited |-> visited, depth |-> depth, edge |-> 1]

TooDeepByOne(f, max_len) == f.depth > max_len + 1

TooDeep(f, max_len) == f.depth > max_len

Top == search.stack[Len(search.stack)]

Pop(stack) == SubSeq(stack, 1, Len(stack) - 1)

SearchCall(len) ==
    /\ calls >= 1
    /\ search.pc # "dfs"
    /\ search' = [pc |-> "dfs", max_len |-> len, node |-> 0, stack |-> << >>,
                  cycles |-> << >>]
    /\ UNCHANGED << scan_vars, calls, sim_cycle, sim_x, sim, opt, swap, work,
                    golden_vars >>

\* for n in nodes: dfs(n, n, [], {n}, 1)
DfsStart ==
    /\ search.pc = "dfs"
    /\ search.stack = << >>
    /\ search.node < Len(graph.keys)
    /\ search' = [search EXCEPT
                    !.node = @ + 1,
                    !.stack = << Frame(graph.keys[search.node + 1],
                                       graph.keys[search.node + 1], << >>,
                                       { graph.keys[search.node + 1] }, 1) >>]
    /\ UNCHANGED << scan_vars, calls, sim_cycle, sim_x, sim, opt, swap, work,
                    golden_vars >>

\* The innermost call is past max_len, or through its edges: it returns.
DfsReturn ==
    /\ search.pc = "dfs"
    /\ search.stack # << >>
    /\ TooDeep(Top, search.max_len) \/ Top.edge > Len(Edges(graph, Top.current))
    /\ search' = [search EXCEPT !.stack = Pop(@)]
    /\ UNCHANGED << scan_vars, calls, sim_cycle, sim_x, sim, opt, swap, work,
                    golden_vars >>

\* The innermost call looks at its next edge.
DfsEdge ==
    /\ search.pc = "dfs"
    /\ search.stack # << >>
    /\ ~TooDeep(Top, search.max_len)
    /\ Top.edge <= Len(Edges(graph, Top.current))
    /\ LET f == Top
           edge == Edges(graph, f.current)[f.edge]
           nxt == edge.to
           on == [search.stack EXCEPT ![Len(search.stack)].edge = @ + 1]
       IN  search' = [search EXCEPT
                        !.cycles = IF nxt = f.start /\ f.path_edges # << >>
                                   THEN Append(@, Append(f.path_edges, edge))
                                   ELSE @,
                        !.stack = IF nxt \in f.visited \/ nxt = f.start THEN on
                                  ELSE Append(on, Frame(f.start, nxt,
                                                        Append(f.path_edges, edge),
                                                        f.visited \cup {nxt},
                                                        f.depth + 1))]
    /\ UNCHANGED << scan_vars, calls, sim_cycle, sim_x, sim, opt, swap, work,
                    golden_vars >>

\* Every start token is through: the duplicates go and the list is returned.
SearchReturn ==
    /\ search.pc = "dfs"
    /\ search.stack = << >>
    /\ search.node = Len(graph.keys)
    /\ search' = [search EXCEPT !.pc = "done"]
    /\ cycles' = Unique(search.cycles, 1, {})
    /\ max_cycle_len' = search.max_len
    /\ calls' = calls + 1
    /\ UNCHANGED << pools, min_profit_threshold, graph, results, history,
                    sim_cycle, sim_x, sim, opt, swap, work, golden_vars >>

DfsStep == DfsStart \/ DfsEdge \/ DfsReturn \/ SearchReturn

SearchNext ==
    \/ \E S \in { {1, 2, 3}, {1, 4}, {3, 6, 9}, {9} } : BuildCall(MenuSeq(PoolMenu, S))
    \/ \E len \in MinLenArg..MaxCycleLen : calls = 1 /\ SearchCall(len)
    \/ DfsStep

SpecSearch == Init /\ [][SearchNext]_vars

\* A call of find_simple_cycles that has begun goes on.
SpecSearchFair == SpecSearch /\ WF_vars(DfsStep)

\* Brackets at the edge of the context precision: one unit in the last of
\* 60 digits wide, and between two amounts of 61 digits; and a search run
\* far past the default tolerance.
DeepIter == 110

BracketMenu ==
    { [x_min |-> r.x_min, x_max |-> r.x_max, tol |-> tol, max_iter |-> max_iter] :
        r \in { [x_min |-> X_MIN_SOURCE, x_max |-> NoXMaxArg],
                [x_min |-> DecOf(1, 59), x_max |-> DAddExact(DecOf(1, 59), DOne)],
                [x_min |-> DAddExact(DecOf(1, 60), DOne),
                 x_max |-> DAddExact(DecOf(1, 60), DecOf(3, 0))] },
        tol \in { DZero, TOL_SOURCE },
        max_iter \in { 1, MaxIterArg } }
    \cup { [x_min |-> X_MIN_SOURCE, x_max |-> NoXMaxArg, tol |-> DZero,
            max_iter |-> DeepIter] }

InitBracket == golden_args \in BracketMenu /\ NotBegun

SpecBracket == InitBracket /\ [][ArgsNext]_vars

\* Inputs of get_amount_out at the context precision.
AmountsPrec ==
    { DecOf(-1, 0), DZero, DecOf(1, -12), DOne, DecOf(10, 0), DecOf(5, 59),
      DAddExact(DecOf(5, 59), DOne), DecOf(1, 70), DecOf(2, 70) }

\* One call of get_amount_out(amount_in, reserve_in, reserve_out, fee).
SwapPrec(amount_in, reserve_in, reserve_out, fee) ==
    /\ swap' = [ran |-> TRUE, amount_in |-> amount_in, reserve_in |-> reserve_in,
                reserve_out |-> reserve_out, fee |-> fee,
                out |-> get_amount_out_prec(amount_in, reserve_in, reserve_out, fee)]
    /\ calls' = calls + 1
    /\ UNCHANGED << scan_vars, sim_cycle, sim_x, sim, opt, work, search, golden_vars >>

SwapNext ==
    \E amount_in \in AmountsPrec,
       reserve_in \in { DZero, DOne, DecOf(1000, 0) },
       reserve_out \in { DZero, DOne, DecOf(2, 0), DecOf(2000, 0) },
       fee \in { DZero, DecOf(3, -3), DecOf(5, -1) } :
        calls = 0 /\ SwapPrec(amount_in, reserve_in, reserve_out, fee)

\* One call of get_amount_out on a fresh module.
SpecSwap == Init /\ [][SwapNext]_vars

\* The optimizations of the cycles of one scan, each a call of
\* maximize_profit_for_cycle on an edge list of the graph, taken up in any
\* order and at most MaxWorkers of them under way at a time.
MaxWorkers == 2

\* The call for cycle i returns and the body of the loop over
\* enumerate(cycles) adds its Opportunity to results, with an edge of the
\* graph left at the reserves of the last simulation.
FinishWritesEdges(i) ==
    /\ work.jobs[i].stage = "loop"
    /\ GoldenIteration(cycles[i], work.jobs[i].k) = work.jobs[i].k
    /\ \E best \in { BestOfBracket(cycles[i], work.jobs[i].k) } :
            /\ results' = results \o Keep(cycles[i], i - 1, best, min_profit_threshold)
            /\ work' = [work EXCEPT !.jobs[i] = [stage |-> "done", best |-> best]]
            /\ cycles' = [c \in 1..Len(cycles) |->
                            [m \in 1..Len(cycles[c]) |->
                                WrittenBack(cycles[c][m], cycles[i],
                                            Simulate(cycles[i], best[1]).local_reserves)]]
    /\ UNCHANGED << pools, max_cycle_len, min_profit_threshold, graph, history,
                    calls, sim_cycle, sim_x, sim, opt, swap, search, golden_vars >>

\* The call for cycle i returns and the body of the loop over
\* enumerate(cycles) adds its Opportunity to results.
Finish(i) ==
    /\ work.jobs[i].stage = "loop"
    /\ GoldenIteration(cycles[i], work.jobs[i].k) = work.jobs[i].k
    /\ \E best \in { BestOfBracket(cycles[i], work.jobs[i].k) } :
            /\ results' = results \o Keep(cycles[i], i - 1, best, min_profit_threshold)
            /\ work' = [work EXCEPT !.jobs[i] = [stage |-> "done", best |-> best]]
    /\ UNCHANGED << pools, max_cycle_len, min_profit_threshold, graph, cycles, history,
                    calls, sim_cycle, sim_x, sim, opt, swap, search, golden_vars >>

AnyOrderNext ==
    \/ \E S \in { {1}, {7}, {1, 2}, {2, 7}, {1, 4} }, len \in {2, 3},
           thr \in { Dec(-1), Zero } :
            /\ calls = 0
            /\ pools' = MenuSeq(PoolMenu, S)
            /\ max_cycle_len' = len
            /\ min_profit_threshold' = thr
            /\ graph' = build_graph_from_pools(pools')
            /\ cycles' = find_simple_cycles(graph', len)
            /\ results' = << >>
            /\ work' = [jobs |-> [i \in 1..Len(cycles') |-> [stage |-> "todo"]],
                        overlapped |-> FALSE]
            /\ calls' = calls + 1
            /\ UNCHANGED << history, sim_cycle, sim_x, sim, opt, swap, search, golden_vars >>
    \/ \E i \in 1..Len(work.jobs) :
            /\ work.jobs[i].stage = "todo"
            /\ Cardinality({ j \in 1..Len(work.jobs) : work.jobs[j].stage = "loop" })
                    < MaxWorkers
            /\ work' = [jobs |-> [work.jobs EXCEPT ![i] =
                                    [stage |-> "loop",
                                     k |-> Bracket(cycles[i], X_MIN_DEFAULT, NoXMax,
                                                   TOL_DEFAULT, 0)]],
                        overlapped |-> work.overlapped
                                        \/ \E j \in 1..Len(work.jobs) :
                                                work.jobs[j].stage = "loop"]
            /\ UNCHANGED << scan_vars, calls, sim_cycle, sim_x, sim, opt, swap, search,
                            golden_vars >>
    \/ \E i \in 1..Len(work.jobs) :
            /\ work.jobs[i].stage = "loop"
            /\ GoldenIteration(cycles[i], work.jobs[i].k) # work.jobs[i].k
            /\ work' = [work EXCEPT !.jobs[i].k = GoldenIteration(cycles[i], @)]
            /\ UNCHANGED << scan_vars, calls, sim_cycle, sim_x, sim, opt, swap, search,
                            golden_vars >>
    \/ \E i \in 1..Len(work.jobs) : Finish(i)

\* The cycles of one scan optimized in any order.
SpecAnyOrder == Init /\ [][AnyOrderNext]_vars

GoldenNext == LoopStep \/ LoopExit \/ GridStep \/ GridZoomIn

\* maximize_profit_for_cycle on the example cycle, then the grid search.
SpecGolden == Init /\ [][GoldenNext]_vars

-----------------------------------------------------------------------------
(* Claims                                                                  *)

\* The rotations of a closed token sequence (its first token repeated at
\* the end): the same walk started at each of its tokens.
ClosedRotations(toks) ==
    LET L == Len(toks) - 1
    IN  { [i \in 1..(L + 1) |-> toks[((i - 1 + k) % L) + 1]] : k \in 0..(L - 1) }

\* C1: find_simple_cycles never returns two cycles that are rotations of
\* the same closed token sequence: each directed walk appears once, not
\* once per start token.
C1_OneCyclePerRotationFamily ==
    \A i, j \in 1..Len(cycles) :
        i # j => CycleToks(cycles[j]) \notin ClosedRotations(CycleToks(cycles[i]))

\* A -> B and back B -> A through one pool.
SamePoolRoundTrip(cyc) ==
    /\ Len(cyc) = 2
    /\ cyc[1].pair_id = cyc[2].pair_id
    /\ cyc[2].token_in = cyc[1].token_out
    /\ cyc[2].token_out = cyc[1].token_in

PositiveReserves(cyc) ==
    \A m \in 1..Len(cyc) :
        RGt(cyc[m].reserve_in, Zero) /\ RGt(cyc[m].reserve_out, Zero)

FeeInRange(fee) == RLe(Zero, fee) /\ RLt(fee, One)

\* profit_for_cycle has run on a round trip through one valid pool with
\* x > 0.
RoundTripCase ==
    /\ sim.ran
    /\ SamePoolRoundTrip(sim_cycle)
    /\ PositiveReserves(sim_cycle)
    /\ FeeInRange(sim_cycle[1].fee)
    /\ RGt(sim_x, Zero)

\* C2: in the round trip through one pool the second swap is priced with
\* the reserves the first leg left: (reserve_out - out, reserve_in + x) of
\* the first leg, not the snapshot reserves.
C2_LaterLegUsesUpdatedReserves ==
    RoundTripCase =>
        /\ sim.used[2].reserve_in = RSub(sim.used[1].reserve_out, sim.used[1].out)
        /\ sim.used[2].reserve_out = RAdd(sim.used[1].reserve_in, sim.used[1].amount_in)

BadReserves(p) == p.reserve0 <= 0 \/ p.reserve1 <= 0
PoolFee(p) == IF p.fee = NoFee THEN FEE_DEFAULT ELSE p.fee
ValidPool(p) == ~BadReserves(p) /\ FeeInRange(PoolFee(p))
ValidSnapshot == \A k \in 1..Len(pools) : ValidPool(pools[k])
CyclePairs(cyc) == { cyc[m].pair_id : m \in 1..Len(cyc) }

\* C3: a pool with a reserve that is 0 or negative contributes no edge to
\* the graph and is in no returned cycle, and the valid pools of the
\* snapshot are still in the graph.
C3_BadReservePoolSkipped ==
    \A k \in 1..Len(pools) :
        IF BadReserves(pools[k])
        THEN /\ \A e \in AllEdges(graph) : e.pair_id # pools[k].pair_id
             /\ \A c \in 1..Len(cycles) : pools[k].pair_id \notin CyclePairs(cycles[c])
        ELSE FeeInRange(PoolFee(pools[k])) =>
                \E e \in AllEdges(graph) : e.pair_id = pools[k].pair_id

\* C4: no edge of the built graph carries a fee outside [0,1), and no swap
\* is simulated with such a fee.
C4_FeeOutsideRangeRejected ==
    /\ \A e \in AllEdges(graph) : FeeInRange(e.fee)
    /\ \A c \in 1..Len(cycles) : \A m \in 1..Len(cycles[c]) : FeeInRange(cycles[c][m].fee)

\* C5: on a snapshot of valid pools, no returned Opportunity has
\* best_profit <= min_profit_threshold, and every enumerated cycle whose
\* optimized profit exceeds the threshold is returned.
C5_ThresholdFilter ==
    ValidSnapshot =>
    /\ \A r \in 1..Len(results) :
            RGt(results[r].best_profit, min_profit_threshold)
    /\ \A i \in 1..Len(cycles) :
            RGt(Optimize(cycles[i])[2], min_profit_threshold) =>
                \E r \in 1..Len(results) : results[r].cycle_index = i - 1

\* C6: on the A -> B -> C -> A cycle of the example triangle, the profit
\* maximize_profit_for_cycle returns is within tol of the maximum of
\* profit_for_cycle over the grid of trade sizes in [x_min, x_max]: no size
\* the grid search has looked at earns more than the returned profit plus
\* tol, and when the search is through, its maximum is no more than tol
\* below the returned profit.
C6_WithinTolOfGridMaximum ==
    golden_pc = "done" =>
        /\ ~GridEmpty =>
                DCmp(DSub(grid_top.profit, golden_best.best_profit), TOL_SOURCE) <= 0
        /\ GridDone =>
                DCmp(DSub(golden_best.best_profit, grid_top.profit), TOL_SOURCE) <= 0

\* The search ran until its bracket was narrower than tol and returned a
\* profit above zero; the grid search is through all its levels and has
\* found a profit above zero too.
C6_Witness ==
    /\ golden_pc = "done"
    /\ golden.iter_count > 0
    /\ DCmp(DSub(golden.b, golden.a), TOL_SOURCE) <= 0
    /\ DSign(golden_best.best_profit) > 0
    /\ GridDone
    /\ DSign(grid_top.profit) > 0

C8_SameArgumentsSameResult ==
    \A i, j \in 1..Len(history) :
        history[i].args = history[j].args => history[i].results = history[j].results

C8_Witness ==
    /\ Len(history) = 3
    /\ history[2].args[1] # history[1].args[1]
    /\ history[3].args = history[1].args
    /\ history[2].results # << >>
    /\ history[3].results # << >>

DegenerateLeg(u) ==
    RLe(u.amount_in, Zero) \/ RLe(u.reserve_in, Zero) \/ RLe(u.reserve_out, Zero)

\* C9: an edge with amount_in <= 0, reserve_in <= 0 or reserve_out <= 0
\* outputs 0, the final amount of the cycle is then 0, and the profit is
\* non-positive.
C9_ZeroOutputNonPositiveProfit ==
    sim.ran =>
        /\ \A m \in 1..Len(sim.used) :
                DegenerateLeg(sim.used[m]) => sim.used[m].out = Zero
        /\ (\E m \in 1..Len(sim.used) : DegenerateLeg(sim.used[m])) =>
                (sim.final = Zero /\ RLe(sim.profit, Zero))

Reported == { cycles[results[r].cycle_index + 1] : r \in 1..Len(results) }

\* C10: with min_profit_threshold >= 0 no returned Opportunity is of a
\* cycle with an edge whose reserve_in or reserve_out is <= 0.
C10_NoReportedCycleWithBadReserve ==
    RLe(Zero, min_profit_threshold) => \A cyc \in Reported : PositiveReserves(cyc)

C10_Witness ==
    /\ RLe(Zero, min_profit_threshold)
    /\ results # << >>
    /\ \E c \in 1..Len(cycles) : ~PositiveReserves(cycles[c])

\* A closed walk of 2..max_len edges of the graph g that passes no token
\* twice, its start aside (which it only leaves and comes back to).
WellFormedCycle(cyc, g, max_len) ==
    /\ 2 <= Len(cyc) /\ Len(cyc) <= max_len
    /\ \A m \in 1..(Len(cyc) - 1) : cyc[m].token_out = cyc[m + 1].token_in
    /\ cyc[Len(cyc)].token_out = cyc[1].token_in
    /\ \A m, n \in 1..Len(cyc) : m # n => cyc[m].token_in # cyc[n].token_in
    /\ \A m \in 1..Len(cyc) :
            \E k \in 1..Len(Edges(g, cyc[m].token_in)) :
                Edges(g, cyc[m].token_in)[k] = cyc[m]

\* C11: every cycle find_simple_cycles(graph, max_len) returns is a
\* well-formed simple cycle: its edges chain, the last one leads back to
\* the first one's token_in, no token other than the start occurs twice,
\* every edge is an edge of the graph, and it has 2..max_len edges.
C11_CyclesWellFormed ==
    \A c \in 1..Len(cycles) : WellFormedCycle(cycles[c], graph, max_cycle_len)

\* A scan with max_len 3 of a snapshot that has a pool of one token with
\* itself, and that found cycles of 2 and of 3 edges.
C11_Witness ==
    /\ max_cycle_len = 3
    /\ \E k \in 1..Len(pools) : pools[k].token0 = pools[k].token1
    /\ \E c \in 1..Len(cycles) : Len(cycles[c]) = 2
    /\ \E c \in 1..Len(cycles) : Len(cycles[c]) = 3

\* C12: once the graph is built, no call of find_simple_cycles,
\* profit_for_cycle (which runs simulate_cycle_final_amount) or
\* maximize_profit_for_cycle changes it: every adjacency list and every
\* field of every edge stays as built, and the edges of the cycles are
\* the edges of the graph.
C12_GraphReadOnly ==
    [][calls >= 1 =>
        /\ graph' = graph
        /\ \A c \in 1..Len(cycles') : \A m \in 1..Len(cycles'[c]) :
                \E k \in 1..Len(Edges(graph, cycles'[c][m].token_in)) :
                    Edges(graph, cycles'[c][m].token_in)[k] = cycles'[c][m]]_vars

\* After the build, find_simple_cycles, profit_for_cycle and
\* maximize_profit_for_cycle have all been called; the simulation updated
\* its local reserves away from those of the edges.
C12_Witness ==
    /\ calls = MaxCalls
    /\ cycles # << >>
    /\ sim.ran
    /\ sim.local_reserves # LocalReserves(sim_cycle)
    /\ opt.ran
    /\ RGt(opt.best[2], Zero)

\* The two edges a pool p is to give: token0 -> token1, then
\* token1 -> token0 with the reserves swapped.
PoolEdges(p) ==
    << [to |-> p.token1, pair_id |-> p.pair_id, reserve_in |-> Dec(p.reserve0),
        reserve_out |-> Dec(p.reserve1), fee |-> PoolFee(p),
        token_in |-> p.token0, token_out |-> p.token1],
       [to |-> p.token0, pair_id |-> p.pair_id, reserve_in |-> Dec(p.reserve1),
        reserve_out |-> Dec(p.reserve0), fee |-> PoolFee(p),
        token_in |-> p.token1, token_out |-> p.token0] >>

\* C13: the graph build_graph_from_pools returns holds exactly the two
\* edges of every pool (token0 -> token1 with the pool's reserves,
\* token1 -> token0 with them swapped, both with the pool's pair_id and
\* its fee, 0.003 if it gives none), and each token's outgoing edges are
\* in the order of the pools.
C13_TwoEdgesPerPoolInOrder ==
    calls >= 1 =>
        LET expected == Flatten([k \in 1..Len(pools) |-> PoolEdges(pools[k])])
        IN  /\ \A t \in Tokens :
                    Edges(graph, t) = SelectSeq(expected, LAMBDA e : e.token_in = t)
            /\ \A i \in 1..Len(graph.keys) : graph.adj[i] # << >>
            /\ \A i, j \in 1..Len(graph.keys) : i # j => graph.keys[i] # graph.keys[j]

\* A graph built of a snapshot with a pool that gives no fee, two pools
\* of the same tokens and a pool of one token with itself.
C13_Witness ==
    /\ calls >= 1
    /\ \E k \in 1..Len(pools) : pools[k].fee = NoFee /\ pools[k].token0 # pools[k].token1
    /\ \E j, k \in 1..Len(pools) :
            j < k /\ pools[j].token0 = pools[k].token0 /\ pools[j].token1 = pools[k].token1
    /\ \E k \in 1..Len(pools) : pools[k].token0 = pools[k].token1
    /\ Len(Edges(graph, "A")) = 4

\* The call is one whose effective x_max is <= x_min, and it has begun.
DegenerateCall ==
    /\ golden_pc # "start"
    /\ DCmp(XMaxOf(ExampleCycle, golden_args), golden_args.x_min) <= 0

\* C14: when the effective x_max (given or defaulted) is <= x_min,
\* maximize_profit_for_cycle returns exactly (0, 0) and has not called
\* profit_for_cycle.
C14_DegenerateRangeReturnsZero ==
    DegenerateCall =>
        /\ golden_pc = "done"
        /\ golden_best = NoBest
        /\ golden_evals = 0

\* A call with the default x_max below the x_min it was given has
\* returned.
C14_Witness ==
    /\ DegenerateCall
    /\ golden_args.x_max = NoXMaxArg
    /\ DCmp(XMaxSource(ExampleCycle), golden_args.x_min) < 0
    /\ golden_pc = "done"

\* C15: when x_max > x_min, the x returned by maximize_profit_for_cycle is
\* one of the bracket points a, b, c, d held when the loop exits, and the
\* returned profit is >= profit_for_cycle at each of the four.
C15_BestOfFourBracketPoints ==
    golden_pc = "done" /\ golden # NotYet =>
        /\ golden_best.best_x \in { golden.a, golden.b, golden.c, golden.d }
        /\ \A xx \in { golden.a, golden.b, golden.c, golden.d } :
                DCmp(profit_for_cycle_prec(ExampleCycle, xx),
                     golden_best.best_profit) <= 0

\* C16: the golden-section loop of maximize_profit_for_cycle terminates:
\* it never runs more than max_iter iterations, and when it has exited
\* either (b - a) <= tol or exactly max_iter iterations have run, also
\* for tol <= 0 and for max_iter = 0.
C16_LoopTerminates ==
    /\ [](golden.iter_count <= golden_args.max_iter)
    /\ [](golden_pc = "done" /\ golden # NotYet =>
            \/ DCmp(DSub(golden.b, golden.a), golden_args.tol) <= 0
            \/ golden.iter_count = golden_args.max_iter)
    /\ <>(golden_pc = "done")

\* A call with tol <= 0 has left the loop after max_iter > 0 iterations
\* with a bracket still wider than tol.
C16_Witness ==
    /\ golden_pc = "done"
    /\ golden # NotYet
    /\ DSign(golden_args.tol) <= 0
    /\ golden_args.max_iter > 0
    /\ golden.iter_count = golden_args.max_iter
    /\ DCmp(DSub(golden.b, golden.a), golden_args.tol) > 0

\* get_amount_out has run with reserve_in > 0, reserve_out > 0, a fee in
\* [0,1) and an amount above zero.
ValidSwap ==
    /\ swap.ran
    /\ DSign(swap.amount_in) > 0
    /\ DSign(swap.reserve_in) > 0
    /\ DSign(swap.reserve_out) > 0
    /\ DSign(swap.fee) >= 0
    /\ DCmp(swap.fee, DOne) < 0

\* C17: for fixed reserve_in > 0, reserve_out > 0 and fee in [0,1),
\* get_amount_out is strictly increasing in amount_in: every smaller
\* amount x1 > 0 gets strictly less out of the same reserves than the
\* amount x2 of the call.
C17_StrictlyIncreasingInAmount ==
    ValidSwap =>
        \A x1 \in AmountsPrec :
            DSign(x1) > 0 /\ DCmp(x1, swap.amount_in) < 0 =>
                DCmp(get_amount_out_prec(x1, swap.reserve_in, swap.reserve_out, swap.fee),
                     swap.out) < 0

\* C18: for positive reserves and a fee in [0,1), get_amount_out(x) stays at
\* or below reserve_out * (1 - fee), which it approaches as x grows, for
\* every x > 0.
C18_AtMostReserveOutLessFee ==
    ValidSwap => DCmp(swap.out, DMul(swap.reserve_out, DSub(DOne, swap.fee))) <= 0

\* The Opportunity o describes the cycle at its cycle_index in cycles.
DescribesItsCycle(o) ==
    /\ 0 <= o.cycle_index /\ o.cycle_index < Len(cycles)
    /\ Len(o.token_path) = Len(cycles[o.cycle_index + 1]) + 1
    /\ o.token_path[1] = o.token_path[Len(o.token_path)]
    /\ \A m \in 1..Len(cycles[o.cycle_index + 1]) :
            /\ o.token_path[m] = cycles[o.cycle_index + 1][m].token_in
            /\ o.token_path[m + 1] = cycles[o.cycle_index + 1][m].token_out
    /\ o.pair_ids =
            [m \in 1..Len(cycles[o.cycle_index + 1]) |->
                cycles[o.cycle_index + 1][m].pair_id]

\* C19: every Opportunity find_and_optimize_cycles returns has a
\* token_path of (edges + 1) tokens that starts and ends with the same
\* token and follows the edges of its cycle, one pool id per edge in edge
\* order, and the position of the cycle in the find_simple_cycles output
\* as cycle_index; the Opportunities are in strictly increasing
\* cycle_index.
C19_OpportunityDescribesCycle ==
    /\ \A r \in 1..Len(results) : DescribesItsCycle(results[r])
    /\ \A r \in 2..Len(results) :
            results[r - 1].cycle_index < results[r].cycle_index

\* A scan that left out its first cycle and returned a cycle of two edges
\* and a cycle of three.
C19_Witness ==
    /\ Len(results) >= 2
    /\ results[1].cycle_index > 0
    /\ \E r \in 1..Len(results) : Len(results[r].pair_ids) = 2
    /\ \E r \in 1..Len(results) : Len(results[r].pair_ids) = 3

\* The Opportunities of results in the order of their cycle_index.
ByCycleIndex(opps) ==
    LET Rank(o) ==
            Cardinality({ r \in 1..Len(opps) : opps[r].cycle_index <= o.cycle_index })
    IN  [n \in 1..Len(opps) |-> opps[CHOOSE r \in 1..Len(opps) : Rank(opps[r]) = n]]

\* C20: the (x_best, profit_best) computed for a cycle is the same whatever
\* other cycles were optimized before it, after it or interleaved with
\* it, and once all the cycles are optimized, in any order or
\* interleaving, the Opportunities sorted by cycle index are the list that
\* sequential processing returns.
C20_AnyOrderSameAsSequential ==
    /\ \A i \in 1..Len(work.jobs) :
            work.jobs[i].stage = "done" => work.jobs[i].best = Optimize(cycles[i])
    /\ (calls = 1 /\ \A i \in 1..Len(work.jobs) : work.jobs[i].stage = "done") =>
            ByCycleIndex(results) = Collect(cycles, 0, min_profit_threshold)

\* All cycles are optimized, two of them were under way at the same time,
\* and an Opportunity of a later cycle came in before one of an earlier
\* cycle.
C20_Witness ==
    /\ calls = 1
    /\ Len(work.jobs) >= 4
    /\ \A i \in 1..Len(work.jobs) : work.jobs[i].stage = "done"
    /\ work.overlapped
    /\ \E r \in 2..Len(results) : results[r - 1].cycle_index > results[r].cycle_index

\* C21: with x_max not supplied the search goes up to
\* max(1e-6, 0.2 * reserve_in of the first edge), so every Opportunity of
\* find_and_optimize_cycles has a best_x no larger than that.
C21_BestXAtMostDefaultXMax ==
    \A r \in 1..Len(results) :
        RLe(results[r].best_x,
            EffectiveXMax(cycles[results[r].cycle_index + 1], NoXMax))

\* C22: cycle enumeration takes a cap on the number of cycles it emits and
\* stops at the cap: whatever cap of 1..4 cycles the caller sets,
\* find_simple_cycles returns no more than cap cycles (a partial result,
\* flagged as truncated).
C22_EnumerationStopsAtCap ==
    \A cap \in 1..4 : Len(cycles) <= cap

\* C23: no binary floating-point value takes part in the search: the
\* golden ratio is exact at the context precision (phi * phi = phi + 1 up
\* to 1e-50), and the key that ranks the bracket points a, b, c, d is
\* their exact profit.
C23_NoBinaryFloatInCore ==
    golden_pc = "done" /\ golden # NotYet =>
        /\ DCmp(DSub(DMul(phi, phi), DAdd(phi, DOne)), DecOf(1, -50)) <= 0
        /\ DCmp(DSub(DAdd(phi, DOne), DMul(phi, phi)), DecOf(1, -50)) <= 0
        /\ \A xx \in { golden.a, golden.b, golden.c, golden.d } :
                DCmp(ToDouble(profit_for_cycle_prec(ExampleCycle, xx)),
                     profit_for_cycle_prec(ExampleCycle, xx)) = 0

\* The closed simple sequences of 2..max_len edges of the graph g.
ClosedSimple(g, max_len) ==
    LET E == UNION { { Edges(g, g.keys[k])[e] : e \in 1..Len(Edges(g, g.keys[k])) } :
                       k \in 1..Len(g.keys) }
    IN  { q \in UNION { [1..n -> E] : n \in 2..max_len } : WellFormedCycle(q, g, max_len) }

\* The pool ids of cyc are those of q, from some edge of q on.
SameRoute(cyc, q) ==
    /\ Len(cyc) = Len(q)
    /\ \E k \in 0..(Len(q) - 1) :
            \A i \in 1..Len(q) : cyc[i].pair_id = q[((i - 1 + k) % Len(q)) + 1].pair_id

\* C24: cycle enumeration loses no trading route: for every closed simple
\* sequence of 2..max_len edges of the graph, find_simple_cycles returns
\* a cycle whose pool-id sequence is a rotation of its pool-id sequence;
\* so the cycles across two pools on the same token pair are there
\* beside the round trips through one pool.
C24_NoRouteLost ==
    \A q \in ClosedSimple(graph, max_cycle_len) :
        \E c \in 1..Len(cycles) : SameRoute(cycles[c], q)

\* C25: each iteration of the golden-section loop keeps the side with the
\* larger profit: with profit(c) > profit(d) the bracket [a, b] becomes
\* [a, d], otherwise [c, b]; the interior point that stays and its profit
\* are taken over, exactly one profit is evaluated, and the width b - a
\* becomes strictly smaller.
C25_KeepsLargerProfitSide ==
    [][golden_pc = "loop" /\ golden_pc' = "loop" /\ golden' # golden =>
         /\ IF DCmp(golden.fc, golden.fd) > 0
            THEN << golden'.a, golden'.b, golden'.d, golden'.fd >>
                     = << golden.a, golden.d, golden.c, golden.fc >>
            ELSE << golden'.a, golden'.b, golden'.c, golden'.fc >>
                     = << golden.c, golden.b, golden.d, golden.fd >>
         /\ golden_evals' = golden_evals + 1
         /\ DCmp(DSub(golden'.b, golden'.a), DSub(golden.b, golden.a)) < 0]_vars

\* C26: when x_max > x_min, the bracket of maximize_profit_for_cycle has
\* x_min <= a <= c <= d <= b <= x_max before the loop and after every
\* iteration, and the returned x_best lies in [x_min, x_max].
C26_BracketOrdered ==
    golden_pc \in { "loop", "done" } /\ golden # NotYet =>
        /\ DCmp(golden_args.x_min, golden.a) <= 0
        /\ DCmp(golden.a, golden.c) <= 0
        /\ DCmp(golden.c, golden.d) <= 0
        /\ DCmp(golden.d, golden.b) <= 0
        /\ DCmp(golden.b, XMaxOf(ExampleCycle, golden_args)) <= 0
        /\ golden_pc = "done" =>
                /\ DCmp(golden_args.x_min, golden_best.best_x) <= 0
                /\ DCmp(golden_best.best_x, XMaxOf(ExampleCycle, golden_args)) <= 0

\* C27: the pair maximize_profit_for_cycle returns is self-consistent:
\* profit_best is profit_for_cycle(cycle, x_best), the final amount of the
\* simulated cycle less x_best, for every choice of the arguments, the
\* degenerate result (0, 0) included.
C27_ReturnedPairSelfConsistent ==
    golden_pc = "done" =>
        DCmp(golden_best.best_profit,
             DSub(simulate_cycle_final_amount_prec(ExampleCycle, golden_best.best_x),
                  golden_best.best_x)) = 0

C27_Witness ==
    /\ golden_pc = "done"
    /\ golden # NotYet
    /\ DCmp(golden_best.best_profit, DZero) > 0

\* C28: find_simple_cycles terminates on every finite graph and every
\* integer max_len: a call that has begun returns; no call of dfs made by
\* dfs is deeper than max_len + 1 calls from its start token; no path goes
\* twice through a token; and with max_len < 2 no cycle is returned.
C28_SearchTerminates ==
    /\ (search.pc = "dfs") ~> (search.pc = "done")
    /\ [](search.pc = "dfs" =>
            \A i \in 1..Len(search.stack) :
                LET f == search.stack[i]
                IN  /\ f.depth = i
                    /\ i >= 2 => f.depth <= search.max_len + 1
                    /\ Len(f.path_edges) = f.depth - 1
                    /\ f.visited = { f.start } \cup
                                     { f.path_edges[k].to : k \in 1..Len(f.path_edges) }
                    /\ Cardinality(f.visited) = f.depth)
    /\ [](search.pc = "done" =>
            /\ cycles = find_simple_cycles(graph, search.max_len)
            /\ search.max_len < 2 => cycles = << >>)

C28_Witness ==
    /\ search.pc = "done"
    /\ search.max_len = 3
    /\ Len(pools) = 3
    /\ \E c \in 1..Len(cycles) : Len(cycles[c]) = 3

\* C29: a swap never drains a pool and never lowers the constant product:
\* for amount_in > 0, reserve_in > 0, reserve_out > 0 and fee in [0, 1),
\* out = get_amount_out(...) has 0 < out < reserve_out and
\* (reserve_in + amount_in) * (reserve_out - out) >= reserve_in * reserve_out,
\* so the reserves the simulator keeps stay above zero.
C29_SwapNeverDrainsPool ==
    ValidSwap =>
        /\ DSign(swap.out) > 0
        /\ DCmp(swap.out, swap.reserve_out) < 0
        /\ DCmp(DMulExact(DAddExact(swap.reserve_in, swap.amount_in),
                          DAddExact(swap.reserve_out, DNeg(swap.out))),
                DMulExact(swap.reserve_in, swap.reserve_out)) >= 0

\* C30: a pool whose two tokens are the same never is an edge of a cycle
\* find_simple_cycles returns, for any max_len, and so never is in an
\* Opportunity.
C30_NoSelfLoopInCycle ==
    LET SelfLoops == { pools[k].pair_id : k \in { j \in 1..Len(pools) :
                                                   pools[j].token0 = pools[j].token1 } }
    IN  /\ \A c \in 1..Len(cycles) : \A m \in 1..Len(cycles[c]) :
                /\ cycles[c][m].pair_id \notin SelfLoops
                /\ cycles[c][m].token_in # cycles[c][m].token_out
        /\ \A r \in 1..Len(results) : \A m \in 1..Len(results[r].pair_ids) :
                results[r].pair_ids[m] \notin SelfLoops

C30_Witness ==
    /\ \E c \in 1..Len(cycles) : \E m \in 1..Len(cycles[c]) :
            \E k \in 1..Len(pools) :
                /\ pools[k].token0 = pools[k].token1
                /\ cycles[c][m].token_in = pools[k].token0
    /\ results # << >>

=============================================================================
